---- MODULE Spec2Model ----
(***************************************************************************)
(* A model of the iptv-api server (src/src/index.js with its middlewares   *)
(* and utils, src/unnamed/part_000 and src/unnamed/part_001).              *)
(*                                                                         *)
(* Three groups of definitions:                                            *)
(*   - the pure computations of the content handlers (parseInt, slice,     *)
(*     pagination, search filter), exercised by SpecPaging and SpecSearch; *)
(*   - the account endpoints over the User collection, with every await    *)
(*     of a handler a point where another request may run (Spec);          *)
(*   - the profile and content endpoints over the Profile collection and   *)
(*     the upstream IPTV API (SpecContent); SpecSequential runs every      *)
(*     endpoint, one request at a time.                                    *)
(***************************************************************************)
EXTENDS Integers, Sequences, FiniteSets, TLC

VARIABLES
  \* --- one paginated list endpoint, its upstream list and its responses
  pgEndpoint,   \* the endpoint requested
  pgList,       \* the array the upstream API returns
  pgRes,        \* <<response>> of the latest request, <<>> before the first
  pgServed      \* integer value of page -> the response it was answered

pgVars == <<pgEndpoint, pgList, pgRes, pgServed>>

VARIABLES
  \* --- one /search request and the three arrays the upstream API returns
  srLive,       \* get_live_streams
  srMovies,     \* get_vod_streams
  srSeries,     \* get_series
  srQuery,      \* the q query parameter
  srRes         \* <<response>>, <<>> before the request is answered

srVars == <<srLive, srMovies, srSeries, srQuery, srRes>>

VARIABLES
  \* --- the server: its two collections, the clock and the requests in flight
  users,        \* the User collection: _id -> document
  nextId,       \* the next _id a new User() gets
  profiles,     \* the Profile collection: _id -> document
  nextProfileId, \* the next _id a new Profile() gets
  now,          \* Date.now(), in units of five minutes
  held,         \* the JWTs the server has issued that clients still hold
  pc,           \* per request slot: "idle", the await it is suspended at, "unanswered"
  req,          \* per request slot: the request
  loc,          \* per request slot: the local variables of its handler
  fx,           \* per request slot: what the request has done so far
  sent,         \* the response just sent, with its request and what it did
  served        \* the requests the run has taken

pfVars == <<profiles, nextProfileId>>
dbVars == <<users, nextId, pfVars>>
rqVars == <<pc, req, loc, fx, sent, served>>
svVars == <<dbVars, now, held, rqVars>>

vars == <<pgVars, srVars, svVars>>

(***************************************************************************)
(* Bounds of the model.                                                    *)
(***************************************************************************)
\* the longest upstream list that is paginated
MaxItems == 11
\* the longest value of the page query parameter, in characters
MaxPageLen == 2
\* the longest item name and search term, in characters
MaxNameLen == 2
\* the most items the three searched arrays hold together
MaxSearchItems == 2

\* the requests the server handles at the same time
MaxReq == 2
\* the accounts created in one run
MaxUsers == 2
\* the last reading of the clock
MaxTime == 3
\* the values of Math.random() tried besides the largest one
RandSteps == 1
\* the JWTs clients keep
MaxHeld == 1
\* the requests one run takes
MaxServed == 3
\* the profile and content requests among them come within the first
MaxContentServed == 2
\* the longest upstream list whose most recent items are asked for
MaxRecent == 52

(***************************************************************************)
(* JavaScript values and library functions the handlers use.               *)
(***************************************************************************)
\* a query parameter that is not given: parseInt(undefined) parses the string
\* "undefined", which starts with no digit
Undefined == <<"undefined">>

Min(a, b) == IF a < b THEN a ELSE b
Max(a, b) == IF a > b THEN a ELSE b

\* the value of a character as a digit, 99 when it is none
DigitValue(c) ==
  CASE c = "0" -> 0 [] c = "1" -> 1 [] c = "2" -> 2 [] c = "3" -> 3
    [] c = "4" -> 4 [] c = "5" -> 5 [] c = "6" -> 6 [] c = "7" -> 7
    [] c = "8" -> 8 [] c = "9" -> 9
    [] c \in {"a", "A"} -> 10 [] c \in {"b", "B"} -> 11
    [] c \in {"c", "C"} -> 12 [] c \in {"d", "D"} -> 13
    [] c \in {"e", "E"} -> 14 [] c \in {"f", "F"} -> 15
    [] OTHER -> 99

RECURSIVE StripLeadingSpace(_)
StripLeadingSpace(s) ==
  IF s # <<>> /\ Head(s) = " " THEN StripLeadingSpace(Tail(s)) ELSE s

\* the longest prefix of s made of digits of the radix, as a number;
\* acc.n counts the digits read
RECURSIVE ReadDigits(_, _, _)
ReadDigits(s, radix, acc) ==
  IF s = <<>> \/ DigitValue(Head(s)) >= radix
  THEN acc
  ELSE ReadDigits(Tail(s), radix,
                  [n |-> acc.n + 1, value |-> acc.value * radix + DigitValue(Head(s))])

NaN == [isNaN |-> TRUE, value |-> 0]

\* parseInt(string) with no radix: white space, a sign, an optional 0x prefix,
\* then digits up to the first character that is none; NaN when there is no digit
ParseInt(str) ==
  LET s0    == StripLeadingSpace(str)
      neg   == s0 # <<>> /\ Head(s0) = "-"
      s1    == IF s0 # <<>> /\ Head(s0) \in {"-", "+"} THEN Tail(s0) ELSE s0
      hex   == Len(s1) >= 2 /\ s1[1] = "0" /\ s1[2] \in {"x", "X"}
      s2    == IF hex THEN Tail(Tail(s1)) ELSE s1
      d     == ReadDigits(s2, IF hex THEN 16 ELSE 10, [n |-> 0, value |-> 0])
  IN  IF d.n = 0 THEN NaN
      ELSE [isNaN |-> FALSE, value |-> IF neg THEN 0 - d.value ELSE d.value]

\* number || dflt: NaN and 0 (and -0) are falsy
OrDefault(p, dflt) == IF p.isNaN \/ p.value = 0 THEN dflt ELSE p.value

\* Array.prototype.slice(start, end): a negative index counts from the end,
\* both are clamped to the array; indices are 0-based, end is exclusive
Slice(arr, start, end) ==
  LET len  == Len(arr)
      k    == IF start < 0 THEN Max(len + start, 0) ELSE Min(start, len)
      fin  == IF end < 0 THEN Max(len + end, 0) ELSE Min(end, len)
  IN  IF k >= fin THEN <<>> ELSE SubSeq(arr, k + 1, fin)

\* Math.ceil(a / b) for a >= 0, b > 0
CeilDiv(a, b) == (a + b - 1) \div b

\* the sequences over S of length at most n
RECURSIVE SeqsUpTo(_, _)
SeqsUpTo(S, n) ==
  IF n = 0 THEN {<<>>}
  ELSE LET shorter == SeqsUpTo(S, n - 1)
       IN  shorter \cup {Append(s, c) : s \in shorter, c \in S}

\* String.prototype.toLowerCase, on the letters of the model
LowerChar(c) ==
  CASE c = "A" -> "a" [] c = "B" -> "b" [] OTHER -> c

ToLowerCase(str) == [i \in 1..Len(str) |-> LowerChar(str[i])]

\* String.prototype.includes: sub occurs in str at some offset
Includes(str, sub) ==
  \E k \in 0..(Len(str) - Len(sub)) : SubSeq(str, k + 1, k + Len(sub)) = sub


(***************************************************************************)
(* The paginated list endpoints: /vods, /series, /live and their           *)
(* /category/:categoryId variants. Each computes its response from the     *)
(* array the upstream API returned and the page query parameter.           *)
(***************************************************************************)
limit == 10

\* a plausible slip: pages counted from 0
PaginateFromZero(list, pageParam) ==
  LET page == OrDefault(ParseInt(pageParam), 1)
  IN  [page       |-> page,
       total      |-> Len(list),
       totalPages |-> CeilDiv(Len(list), limit),
       data       |-> Slice(list, page * limit, (page + 1) * limit)]

Paginate(list, pageParam) ==
  LET page == OrDefault(ParseInt(pageParam), 1)
  IN  [page       |-> page,
       total      |-> Len(list),
       totalPages |-> CeilDiv(Len(list), limit),
       data       |-> Slice(list, (page - 1) * limit, page * limit)]

GetVods(vods, pageParam) == Paginate(vods, pageParam)
GetVodsByCategory(vods, pageParam) == Paginate(vods, pageParam)
GetSeries(series, pageParam) == Paginate(series, pageParam)
GetSeriesByCategory(series, pageParam) == Paginate(series, pageParam)
GetLive(liveStreams, pageParam) == Paginate(liveStreams, pageParam)
GetLiveByCategory(liveStreams, pageParam) == Paginate(liveStreams, pageParam)

PagedEndpoints ==
  {"/vods", "/vods/category/:categoryId", "/series",
   "/series/category/:categoryId", "/live", "/live/category/:categoryId"}

PagedResponse(endpoint, list, pageParam) ==
  CASE endpoint = "/vods" -> GetVods(list, pageParam)
    [] endpoint = "/vods/category/:categoryId" -> GetVodsByCategory(list, pageParam)
    [] endpoint = "/series" -> GetSeries(list, pageParam)
    [] endpoint = "/series/category/:categoryId" -> GetSeriesByCategory(list, pageParam)
    [] endpoint = "/live" -> GetLive(list, pageParam)
    [] endpoint = "/live/category/:categoryId" -> GetLiveByCategory(list, pageParam)

(***************************************************************************)
(* GET /search: the three arrays filtered by the search term               *)
(* (Array.prototype.filter is SelectSeq).                                  *)
(***************************************************************************)
\* a plausible slip: the search term is compared as typed
SearchResultsTermAsTyped(liveStreams, movies, series, query) ==
  LET Match(item) == Includes(ToLowerCase(item.name), query)
  IN  [query       |-> query,
       liveStreams |-> SelectSeq(liveStreams, Match),
       movies      |-> SelectSeq(movies, Match),
       series      |-> SelectSeq(series, Match)]

SearchResults(liveStreams, movies, series, query) ==
  LET MatchLive(item)   == Includes(ToLowerCase(item.name), ToLowerCase(query))
      MatchMovie(item)  == Includes(ToLowerCase(item.name), ToLowerCase(query))
      MatchSeries(item) == Includes(ToLowerCase(item.name), ToLowerCase(query))
  IN  [query       |-> query,
       liveStreams |-> SelectSeq(liveStreams, MatchLive),
       movies      |-> SelectSeq(movies, MatchMovie),
       series      |-> SelectSeq(series, MatchSeries)]

(***************************************************************************)
(* The server. A handler runs until it awaits; the database operation, the *)
(* email or the upstream request it awaits then completes in a later step, *)
(* in which the handler runs on to its next await or to its response.      *)
(* Between the two, any other request may take steps.                      *)
(***************************************************************************)
API_KEY == "key"
SECRET_KEY == "secret"

\* expiry times, in units of five minutes
CodeTtl == 2
ResetTtl == 3
LoginTtl == 12

Slots == 1..MaxReq

\* null, where a document holds a string, and where it holds a date
Null == <<"null">>
NullDate == <<>>
\* the empty string, where a string is the sequence of its characters
Empty == <<>>
\* findOne that finds no document
NoId == 0

\* a request: when it arrived, its route, and what it carries
NoReq == [at |-> 0, wellFormed |-> TRUE, endpoint |-> "none"]
NoLoc == [userId |-> NoId]
NoRes == [status |-> 0, json |-> FALSE, key |-> "none", data |-> <<>>]
\* what a request has done: database writes, emails, Profile reads, upstream
\* requests made, resolved and failed, and the profiles whose url, username
\* and password went into upstream requests
NoFx ==
  [writes |-> 0, emails |-> 0, profileReads |-> 0,
   upstream |-> 0, resolved |-> 0, failed |-> 0, used |-> {}]
NoSent == [slot |-> 0, req |-> NoReq, res |-> NoRes, fx |-> NoFx]

\* res.status(status).json({key: ...})
Json(status, key) == [status |-> status, json |-> TRUE, key |-> key, data |-> <<>>]
JsonData(status, key, data) == [status |-> status, json |-> TRUE, key |-> key, data |-> <<data>>]
\* res.sendStatus(status): the body is the status text, as text/plain
SendStatus(status) == [status |-> status, json |-> FALSE, key |-> "text", data |-> <<>>]
\* the error handler of Express: the body is an HTML page
ErrorPage(status) == [status |-> status, json |-> FALSE, key |-> "html", data |-> <<>>]

\* --- app.use(express.json()) (src/src/index.js) --------------------------

\* express.json(): next(), or the error of a body that is not well-formed
\* JSON, which the error handler answers with status 400
ExpressJson(request) ==
  IF request.wellFormed
  THEN [next |-> TRUE, res |-> NoRes]
  ELSE [next |-> FALSE, res |-> ErrorPage(400)]

\* --- middlewares (src/unnamed/part_000) ---------------------------------

\* a plausible slip: every key is let through
ValidateApiKeyAlways(request) == [next |-> TRUE, res |-> NoRes]

\* validateApiKey: next() or the response
ValidateApiKey(request) ==
  IF request.apiKey = API_KEY
  THEN [next |-> TRUE, res |-> NoRes]
  ELSE [next |-> FALSE, res |-> Json(403, "error")]

\* a JWT: what jwt.sign put in it and the key it is signed with; "by" is the
\* endpoint that issued it, which the token itself does not carry
Jwt(userId, exp, sig, by) ==
  [userId |-> userId, exp |-> exp, sig |-> sig, by |-> by]
\* a second word that is the empty string ("Bearer  x"), or one that is no JWT
EmptyBearer == [userId |-> NoId, exp |-> 0, sig |-> "", by |-> "client"]
GarbageBearer == [userId |-> NoId, exp |-> 0, sig |-> "garbage", by |-> "client"]

\* the authorization header: the number of words of its value (0 when it is
\* not sent) and the second word
NoAuth == [words |-> 0, second |-> EmptyBearer]
OneWord == [words |-> 1, second |-> EmptyBearer]
Bearer(token) == [words |-> 2, second |-> token]

\* req.headers["authorization"]?.split(" ")[1]
BearerOf(header) ==
  IF header.words < 2
  THEN [undefined |-> TRUE, token |-> EmptyBearer]
  ELSE [undefined |-> FALSE, token |-> header.second]

\* jwt.verify(token, SECRET_KEY): the signature, then the expiry
JwtVerify(token) == token.sig = SECRET_KEY /\ now < token.exp

\* authenticateResetToken
AuthenticateResetToken(request) ==
  LET bearer == BearerOf(request.auth)
  IN  IF bearer.undefined \/ bearer.token = EmptyBearer
      THEN [next |-> FALSE, res |-> Json(401, "error"), userId |-> NoId]
      ELSE IF ~JwtVerify(bearer.token)
      THEN [next |-> FALSE, res |-> Json(403, "error"), userId |-> NoId]
      ELSE [next |-> TRUE, res |-> NoRes, userId |-> bearer.token.userId]

\* --- utils (src/unnamed/part_001) ---------------------------------------

\* generateToken: jwt.sign({ userId }, SECRET_KEY, { expiresIn: "1h" })
GenerateToken(userId) == Jwt(userId, now + LoginTtl, SECRET_KEY, "/login")

\* Number.prototype.toString: the decimal digits, no leading zero
DigitChar(d) ==
  CASE d = 0 -> "0" [] d = 1 -> "1" [] d = 2 -> "2" [] d = 3 -> "3" [] d = 4 -> "4"
    [] d = 5 -> "5" [] d = 6 -> "6" [] d = 7 -> "7" [] d = 8 -> "8" [] d = 9 -> "9"

RECURSIVE NumToString(_)
NumToString(n) ==
  IF n < 10 THEN <<DigitChar(n)>> ELSE Append(NumToString(n \div 10), DigitChar(n % 10))

\* Math.random(), in millionths: 0 <= Math.random() < 1
RandomSamples ==
  {k * (1000000 \div RandSteps) : k \in 0..(RandSteps - 1)} \cup {999999}

\* a plausible slip: a number below 1000000, which may have fewer digits
RandomCodeBelowMillion(random) == NumToString((random * 10) \div 10)

\* Math.floor(100000 + Math.random() * 900000).toString()
RandomCode(random) == NumToString(100000 + (random * 9) \div 10)

\* bcrypt.hash and bcrypt.compare: the hash of a password matches that password
Hash(password) == <<"bcrypt", password>>
Compare(password, hashed) == hashed = Hash(password)

\* --- the User collection -------------------------------------------------
MinOf(S) == CHOOSE x \in S : \A y \in S : x <= y
FirstOf(S) == IF S = {} THEN NoId ELSE MinOf(S)

\* User.findOne({ username }), ({ email }), ({ verificationToken }), findById
FindByUsername(username) == FirstOf({id \in DOMAIN users : users[id].username = username})
FindByEmail(email) == FirstOf({id \in DOMAIN users : users[id].email = email})
FindByToken(code) == FirstOf({id \in DOMAIN users : users[id].verificationToken = code})
FindById(id) == IF id \in DOMAIN users THEN id ELSE NoId

\* a plausible slip: the schema declares no unique index
DuplicateKeyUnchecked(doc) == FALSE

\* the unique indexes of userSchema: username and email
DuplicateKey(doc) ==
  \E id \in DOMAIN users :
    users[id].username = doc.username \/ users[id].email = doc.email

Insert(coll, id, doc) == [x \in DOMAIN coll \cup {id} |-> IF x = id THEN doc ELSE coll[x]]
Delete(coll, id) == [x \in DOMAIN coll \ {id} |-> coll[x]]

\* document.save() of a loaded document: $set of the paths that were assigned
\* a value other than the loaded one
SaveCode(coll, id, loaded, code, expires) ==
  [coll EXCEPT ![id] =
     [@ EXCEPT !.verificationToken = IF code = loaded.verificationToken THEN @ ELSE code,
               !.verificationExpires = IF expires = loaded.verificationExpires THEN @ ELSE expires]]

\* --- request slots -------------------------------------------------------
\* the free slot a new request takes (slots are interchangeable); the server
\* takes a step once the response before it has left
Free(r) == sent = NoSent /\ pc[r] = "idle" /\ \A q \in Slots : q < r => pc[q] # "idle"

\* the handler in slot r is suspended at this await
At(r, at) == sent = NoSent /\ pc[r] = at

\* the handler sends its response: the slot is free again, and the response is
\* on record, with its request and what the request did, until the next step
Answer(r, request, effects, response) ==
  /\ pc' = [pc EXCEPT ![r] = "idle"]
  /\ req' = [req EXCEPT ![r] = NoReq]
  /\ loc' = [loc EXCEPT ![r] = NoLoc]
  /\ fx' = [fx EXCEPT ![r] = NoFx]
  /\ sent' = [slot |-> r, req |-> request, res |-> response, fx |-> effects]
  /\ UNCHANGED <<pgVars, srVars>>

\* the handler awaits
Await(r, request, effects, at, locals) ==
  /\ pc' = [pc EXCEPT ![r] = at]
  /\ req' = [req EXCEPT ![r] = request]
  /\ loc' = [loc EXCEPT ![r] = locals]
  /\ fx' = [fx EXCEPT ![r] = effects]
  /\ sent' = NoSent
  /\ UNCHANGED <<pgVars, srVars>>

\* the promise the handler awaits rejects and nothing catches it: the request
\* is never answered
Unhandled(r) ==
  /\ pc' = [pc EXCEPT ![r] = "unanswered"]
  /\ loc' = [loc EXCEPT ![r] = NoLoc]
  /\ sent' = NoSent
  /\ UNCHANGED <<req, fx, pgVars, srVars>>

\* the client may keep the JWT of a response, forgetting others for it
Keep(token) ==
  \/ held' = held
  \/ \E kept \in SUBSET held :
       /\ Cardinality(kept) < MaxHeld
       /\ held' = kept \cup {token}

\* the response reaches the client
Deliver ==
  /\ sent # NoSent
  /\ sent' = NoSent
  /\ IF sent.res.key \in {"token", "resetToken"} THEN Keep(sent.res.data[1]) ELSE UNCHANGED held
  /\ UNCHANGED <<dbVars, now, served, pc, req, loc, fx, pgVars, srVars>>

\* one more database write, email or upstream request of a request
Did(effects, what) == [effects EXCEPT ![what] = @ + 1]

\* the run takes one more request
Accept == served < MaxServed /\ served' = served + 1
AcceptContent == served < MaxContentServed /\ served' = served + 1

\* --- what clients send ---------------------------------------------------
ApiKeys == {API_KEY, "wrong"}
Usernames == {"ann", "bob"}
Emails == {"ann@x", "bob@x"}
Passwords == {"pw1", "pw2"}

\* generateUniqueVerificationCode: the code just drawn is in use, draw again
\* (do ... while (userWithSameCode))
CodeInUse(code) == FindByToken(code) # NoId

\* the code drawn for slot r must be drawn again
DrawAgain(r) == CodeInUse(loc[r].code)

Redraw(r) ==
  /\ \E random \in RandomSamples :
       loc' = [loc EXCEPT ![r] = [@ EXCEPT !.code = RandomCode(random)]]
  /\ sent' = NoSent
  /\ UNCHANGED <<pc, req, fx, pgVars, srVars>>

(***************************************************************************)
(* POST /register                                                          *)
(***************************************************************************)
RegisterBodies ==
  {[username |-> u, password |-> "pw1", email |-> e, firstName |-> "Ann", lastName |-> "Lee"] :
     u \in Usernames, e \in Emails}
  \cup {[username |-> "", password |-> "pw1", email |-> "ann@x", firstName |-> "Ann", lastName |-> "Lee"],
        [username |-> "ann", password |-> "", email |-> "ann@x", firstName |-> "Ann", lastName |-> "Lee"],
        [username |-> "ann", password |-> "pw1", email |-> "", firstName |-> "Ann", lastName |-> "Lee"],
        [username |-> "ann", password |-> "pw1", email |-> "ann@x", firstName |-> "", lastName |-> "Lee"],
        [username |-> "ann", password |-> "pw1", email |-> "ann@x", firstName |-> "Ann", lastName |-> ""]}

\* the request arrives: validateApiKey, the required fields, findOne is awaited
Register(r) ==
  /\ Free(r)
  /\ Accept
  /\ \E wellFormed \in BOOLEAN, key \in ApiKeys, body \in RegisterBodies :
       LET request == [at |-> now, wellFormed |-> wellFormed, endpoint |-> "/register", apiKey |-> key, auth |-> NoAuth, body |-> body]
           gate    == ValidateApiKey(request)
           parsed  == ExpressJson(request)
       IN  IF ~parsed.next THEN Answer(r, request, NoFx, parsed.res)
           ELSE IF ~gate.next THEN Answer(r, request, NoFx, gate.res)
           ELSE IF "" \in {body.username, body.password, body.email, body.firstName, body.lastName}
           THEN Answer(r, request, NoFx, Json(400, "error"))
           ELSE Await(r, request, NoFx, "register:findOne", NoLoc)
  /\ UNCHANGED <<users, nextId, now, held, pfVars>>

\* findOne({ username }) returns; bcrypt.hash; the first code is drawn
RegisterFound(r) ==
  /\ At(r, "register:findOne")
  /\ IF FindByUsername(req[r].body.username) # NoId
     THEN Answer(r, req[r], fx[r], Json(400, "error"))
     ELSE \E random \in RandomSamples :
            Await(r, req[r], fx[r], "register:code",
                  [userId |-> NoId, code |-> RandomCode(random),
                   hashedPassword |-> Hash(req[r].body.password)])
  /\ UNCHANGED <<users, nextId, now, held, served, pfVars>>

\* findOne({ verificationToken: code }) returns: draw again, or new User()
\* and save() is awaited
RegisterCode(r) ==
  /\ At(r, "register:code")
  /\ IF DrawAgain(r)
     THEN Redraw(r) /\ UNCHANGED nextId
     ELSE /\ Await(r, req[r], fx[r], "register:save",
                   [userId |-> nextId,
                    doc |-> [username |-> req[r].body.username,
                             password |-> loc[r].hashedPassword,
                             email |-> req[r].body.email,
                             firstName |-> req[r].body.firstName,
                             lastName |-> req[r].body.lastName,
                             verificationToken |-> loc[r].code,
                             verificationExpires |-> <<now + CodeTtl>>,
                             isVerified |-> FALSE]])
          /\ nextId' = nextId + 1
  /\ UNCHANGED <<users, now, held, served, pfVars>>

\* save() completes: the document is inserted and sendEmail is awaited; a
\* duplicate username or email rejects, inside the bcrypt callback
RegisterSaved(r) ==
  /\ At(r, "register:save")
  /\ IF DuplicateKey(loc[r].doc)
     THEN Unhandled(r) /\ UNCHANGED users
     ELSE /\ users' = Insert(users, loc[r].userId, loc[r].doc)
          /\ Await(r, req[r], Did(Did(fx[r], "writes"), "emails"), "register:email",
                   [userId |-> loc[r].userId])
  /\ UNCHANGED <<nextId, now, held, served, pfVars>>

\* sendEmail resolves: 201; or rejects: deleteOne({ email }) is awaited
RegisterEmailSent(r) ==
  /\ At(r, "register:email")
  /\ \/ Answer(r, req[r], fx[r], Json(201, "message"))
     \/ Await(r, req[r], fx[r], "register:deleteOne", loc[r])
  /\ UNCHANGED <<users, nextId, now, held, served, pfVars>>

\* a plausible slip: the catch answers 500 and the account stays
RegisterNotDeleted(r) ==
  /\ At(r, "register:deleteOne")
  /\ Answer(r, req[r], fx[r], Json(500, "error"))
  /\ UNCHANGED <<users, nextId, now, held, served, pfVars>>

\* deleteOne({ email }) completes: 500
RegisterDeleted(r) ==
  /\ At(r, "register:deleteOne")
  /\ LET id == FindByEmail(req[r].body.email)
     IN  IF id = NoId
         THEN /\ Answer(r, req[r], fx[r], Json(500, "error"))
              /\ UNCHANGED users
         ELSE /\ Answer(r, req[r], Did(fx[r], "writes"), Json(500, "error"))
              /\ users' = Delete(users, id)
  /\ UNCHANGED <<nextId, now, held, served, pfVars>>

(***************************************************************************)
(* POST /verify                                                            *)
(***************************************************************************)
CodeInputs == {RandomCode(random) : random \in RandomSamples} \cup {Empty}

\* a plausible slip: five minutes of grace
ExpiredWithGrace(expires) == expires # NullDate /\ now > expires[1] + 1

\* user.verificationExpires && now > user.verificationExpires
Expired(expires) == expires # NullDate /\ now > expires[1]

Verify(r) ==
  /\ Free(r)
  /\ Accept
  /\ \E wellFormed \in BOOLEAN, key \in ApiKeys, code \in CodeInputs :
       LET request == [at |-> now, wellFormed |-> wellFormed, endpoint |-> "/verify", apiKey |-> key, auth |-> NoAuth,
                       body |-> [code |-> code]]
           gate    == ValidateApiKey(request)
           parsed  == ExpressJson(request)
       IN  IF ~parsed.next THEN Answer(r, request, NoFx, parsed.res)
           ELSE IF ~gate.next THEN Answer(r, request, NoFx, gate.res)
           ELSE IF code = Empty THEN Answer(r, request, NoFx, Json(400, "error"))
           ELSE Await(r, request, NoFx, "verify:findOne", NoLoc)
  /\ UNCHANGED <<users, nextId, now, held, pfVars>>

\* findOne({ verificationToken: code }) returns; the expiry; save() is awaited
VerifyFound(r) ==
  /\ At(r, "verify:findOne")
  /\ LET id == FindByToken(req[r].body.code)
     IN  IF id = NoId THEN Answer(r, req[r], fx[r], Json(400, "error"))
         ELSE IF Expired(users[id].verificationExpires)
         THEN Answer(r, req[r], fx[r], Json(400, "error"))
         ELSE Await(r, req[r], fx[r], "verify:save", [userId |-> id])
  /\ UNCHANGED <<users, nextId, now, held, served, pfVars>>

\* save() completes: isVerified, verificationToken and verificationExpires
\* are set; sendEmail is awaited. The document may be gone: save() rejects
VerifySaved(r) ==
  /\ At(r, "verify:save")
  /\ IF FindById(loc[r].userId) = NoId
     THEN /\ Answer(r, req[r], fx[r], Json(500, "message"))
          /\ UNCHANGED users
     ELSE /\ users' = [users EXCEPT ![loc[r].userId] =
                         [@ EXCEPT !.isVerified = TRUE,
                                   !.verificationToken = Null,
                                   !.verificationExpires = NullDate]]
          /\ Await(r, req[r], Did(Did(fx[r], "writes"), "emails"), "verify:email", loc[r])
  /\ UNCHANGED <<nextId, now, held, served, pfVars>>

\* sendEmail resolves: 200; or rejects: the catch answers 500
VerifyEmailSent(r) ==
  /\ At(r, "verify:email")
  /\ \/ Answer(r, req[r], fx[r], Json(200, "message"))
     \/ Answer(r, req[r], fx[r], Json(500, "message"))
  /\ UNCHANGED <<users, nextId, now, held, served, pfVars>>

(***************************************************************************)
(* POST /resend-verification                                               *)
(***************************************************************************)
EmailInputs == Emails \cup {""}

ResendVerification(r) ==
  /\ Free(r)
  /\ Accept
  /\ \E wellFormed \in BOOLEAN, key \in ApiKeys, email \in EmailInputs :
       LET request == [at |-> now, wellFormed |-> wellFormed, endpoint |-> "/resend-verification", apiKey |-> key, auth |-> NoAuth,
                       body |-> [email |-> email]]
           gate    == ValidateApiKey(request)
           parsed  == ExpressJson(request)
       IN  IF ~parsed.next THEN Answer(r, request, NoFx, parsed.res)
           ELSE IF ~gate.next THEN Answer(r, request, NoFx, gate.res)
           ELSE IF email = "" THEN Answer(r, request, NoFx, Json(400, "error"))
           ELSE Await(r, request, NoFx, "resend:findOne", NoLoc)
  /\ UNCHANGED <<users, nextId, now, held, pfVars>>

\* findOne({ email }) returns; the first code is drawn
ResendFound(r) ==
  /\ At(r, "resend:findOne")
  /\ LET id == FindByEmail(req[r].body.email)
     IN  IF id = NoId THEN Answer(r, req[r], fx[r], Json(404, "error"))
         ELSE IF users[id].isVerified THEN Answer(r, req[r], fx[r], Json(400, "error"))
         ELSE \E random \in RandomSamples :
                Await(r, req[r], fx[r], "resend:code",
                      [userId |-> id, code |-> RandomCode(random), loaded |-> users[id]])
  /\ UNCHANGED <<users, nextId, now, held, served, pfVars>>

\* findOne({ verificationToken: code }) returns: draw again, or save() is awaited
ResendCode(r) ==
  /\ At(r, "resend:code")
  /\ IF DrawAgain(r) THEN Redraw(r)
     ELSE Await(r, req[r], fx[r], "resend:save",
                [userId |-> loc[r].userId, code |-> loc[r].code,
                 expires |-> <<now + CodeTtl>>, loaded |-> loc[r].loaded])
  /\ UNCHANGED <<users, nextId, now, held, served, pfVars>>

\* save() completes; sendEmail is awaited. The document may be gone: 500
ResendSaved(r) ==
  /\ At(r, "resend:save")
  /\ IF FindById(loc[r].userId) = NoId
     THEN /\ Answer(r, req[r], fx[r], Json(500, "error"))
          /\ UNCHANGED users
     ELSE /\ users' = SaveCode(users, loc[r].userId, loc[r].loaded, loc[r].code, loc[r].expires)
          /\ Await(r, req[r], Did(Did(fx[r], "writes"), "emails"), "resend:email",
                   [userId |-> loc[r].userId])
  /\ UNCHANGED <<nextId, now, held, served, pfVars>>

ResendEmailSent(r) ==
  /\ At(r, "resend:email")
  /\ \/ Answer(r, req[r], fx[r], Json(200, "message"))
     \/ Answer(r, req[r], fx[r], Json(500, "error"))
  /\ UNCHANGED <<users, nextId, now, held, served, pfVars>>

(***************************************************************************)
(* POST /login                                                             *)
(***************************************************************************)
Login(r) ==
  /\ Free(r)
  /\ Accept
  /\ \E wellFormed \in BOOLEAN, key \in ApiKeys, username \in Usernames \cup {""}, password \in Passwords \cup {""} :
       LET request == [at |-> now, wellFormed |-> wellFormed, endpoint |-> "/login", apiKey |-> key, auth |-> NoAuth,
                       body |-> [username |-> username, password |-> password]]
           gate    == ValidateApiKey(request)
           parsed  == ExpressJson(request)
       IN  IF ~parsed.next THEN Answer(r, request, NoFx, parsed.res)
           ELSE IF ~gate.next THEN Answer(r, request, NoFx, gate.res)
           ELSE IF username = "" \/ password = ""
           THEN Answer(r, request, NoFx, Json(400, "errors"))
           ELSE Await(r, request, NoFx, "login:findOne", NoLoc)
  /\ UNCHANGED <<users, nextId, now, held, pfVars>>

\* a plausible slip: the token is issued without looking at isVerified
LoginFoundUnverified(r) ==
  /\ At(r, "login:findOne")
  /\ LET id == FindByUsername(req[r].body.username)
     IN  IF id = NoId
         THEN Answer(r, req[r], fx[r], Json(400, "error"))
         ELSE IF ~Compare(req[r].body.password, users[id].password)
         THEN Answer(r, req[r], fx[r], Json(400, "error"))
         ELSE Answer(r, req[r], fx[r], JsonData(200, "token", GenerateToken(id)))
  /\ UNCHANGED <<users, nextId, now, held, served, pfVars>>

\* findOne({ username }) returns; bcrypt.compare; the token
LoginFound(r) ==
  /\ At(r, "login:findOne")
  /\ LET id == FindByUsername(req[r].body.username)
     IN  IF id = NoId
         THEN Answer(r, req[r], fx[r], Json(400, "error"))
         ELSE IF ~Compare(req[r].body.password, users[id].password)
         THEN Answer(r, req[r], fx[r], Json(400, "error"))
         ELSE IF ~users[id].isVerified
         THEN Answer(r, req[r], fx[r], Json(400, "error"))
         ELSE Answer(r, req[r], fx[r], JsonData(200, "token", GenerateToken(id)))
  /\ UNCHANGED <<users, nextId, now, held, served, pfVars>>

(***************************************************************************)
(* POST /forgot-password                                                   *)
(***************************************************************************)
ForgotPassword(r) ==
  /\ Free(r)
  /\ Accept
  /\ \E wellFormed \in BOOLEAN, key \in ApiKeys, email \in EmailInputs :
       LET request == [at |-> now, wellFormed |-> wellFormed, endpoint |-> "/forgot-password", apiKey |-> key, auth |-> NoAuth,
                       body |-> [email |-> email]]
           gate    == ValidateApiKey(request)
           parsed  == ExpressJson(request)
       IN  IF ~parsed.next THEN Answer(r, request, NoFx, parsed.res)
           ELSE IF ~gate.next THEN Answer(r, request, NoFx, gate.res)
           ELSE IF email = "" THEN Answer(r, request, NoFx, Json(400, "error"))
           ELSE Await(r, request, NoFx, "forgot:findOne", NoLoc)
  /\ UNCHANGED <<users, nextId, now, held, pfVars>>

ForgotFound(r) ==
  /\ At(r, "forgot:findOne")
  /\ LET id == FindByEmail(req[r].body.email)
     IN  IF id = NoId THEN Answer(r, req[r], fx[r], Json(404, "error"))
         ELSE \E random \in RandomSamples :
                Await(r, req[r], fx[r], "forgot:code",
                      [userId |-> id, code |-> RandomCode(random), loaded |-> users[id]])
  /\ UNCHANGED <<users, nextId, now, held, served, pfVars>>

ForgotCode(r) ==
  /\ At(r, "forgot:code")
  /\ IF DrawAgain(r) THEN Redraw(r)
     ELSE Await(r, req[r], fx[r], "forgot:save",
                [userId |-> loc[r].userId, code |-> loc[r].code,
                 expires |-> <<now + CodeTtl>>, loaded |-> loc[r].loaded])
  /\ UNCHANGED <<users, nextId, now, held, served, pfVars>>

ForgotSaved(r) ==
  /\ At(r, "forgot:save")
  /\ IF FindById(loc[r].userId) = NoId
     THEN /\ Answer(r, req[r], fx[r], Json(500, "error"))
          /\ UNCHANGED users
     ELSE /\ users' = SaveCode(users, loc[r].userId, loc[r].loaded, loc[r].code, loc[r].expires)
          /\ Await(r, req[r], Did(Did(fx[r], "writes"), "emails"), "forgot:email",
                   [userId |-> loc[r].userId])
  /\ UNCHANGED <<nextId, now, held, served, pfVars>>

ForgotEmailSent(r) ==
  /\ At(r, "forgot:email")
  /\ \/ Answer(r, req[r], fx[r], Json(200, "message"))
     \/ Answer(r, req[r], fx[r], Json(500, "error"))
  /\ UNCHANGED <<users, nextId, now, held, served, pfVars>>

(***************************************************************************)
(* POST /verify-reset-code                                                 *)
(***************************************************************************)
VerifyResetCode(r) ==
  /\ Free(r)
  /\ Accept
  /\ \E wellFormed \in BOOLEAN, key \in ApiKeys, code \in CodeInputs :
       LET request == [at |-> now, wellFormed |-> wellFormed, endpoint |-> "/verify-reset-code", apiKey |-> key, auth |-> NoAuth,
                       body |-> [verificationCode |-> code]]
           gate    == ValidateApiKey(request)
           parsed  == ExpressJson(request)
       IN  IF ~parsed.next THEN Answer(r, request, NoFx, parsed.res)
           ELSE IF ~gate.next THEN Answer(r, request, NoFx, gate.res)
           ELSE IF code = Empty THEN Answer(r, request, NoFx, Json(400, "error"))
           ELSE Await(r, request, NoFx, "verifyReset:findOne", NoLoc)
  /\ UNCHANGED <<users, nextId, now, held, pfVars>>

\* now > user.verificationExpires, where null compares as 0
ExpiredOrNull(expires) == IF expires = NullDate THEN now > 0 ELSE now > expires[1]

\* jwt.sign({ userId: user._id }, SECRET_KEY, { expiresIn: "15m" })
ResetTokenFor(id) == Jwt(id, now + ResetTtl, SECRET_KEY, "/verify-reset-code")

\* findOne({ verificationToken }) returns; the expiry; the reset token
VerifyResetFound(r) ==
  /\ At(r, "verifyReset:findOne")
  /\ LET id == FindByToken(req[r].body.verificationCode)
     IN  IF id = NoId
         THEN Answer(r, req[r], fx[r], Json(404, "error"))
         ELSE IF ExpiredOrNull(users[id].verificationExpires)
         THEN Answer(r, req[r], fx[r], Json(400, "error"))
         ELSE Answer(r, req[r], fx[r], JsonData(200, "resetToken", ResetTokenFor(id)))
  /\ UNCHANGED <<users, nextId, now, held, served, pfVars>>

(***************************************************************************)
(* POST /reset-password                                                    *)
(***************************************************************************)
\* a JWT signed with another key
Forged == Jwt(1, MaxTime + LoginTtl, "forged", "client")

AuthHeaders == {NoAuth, OneWord} \cup {Bearer(t) : t \in held \cup {EmptyBearer, GarbageBearer, Forged}}

ResetPassword(r) ==
  /\ Free(r)
  /\ Accept
  /\ \E wellFormed \in BOOLEAN, key \in ApiKeys, auth \in AuthHeaders, newPassword \in {"pw2", ""} :
       LET request == [at |-> now, wellFormed |-> wellFormed, endpoint |-> "/reset-password", apiKey |-> key, auth |-> auth,
                       body |-> [newPassword |-> newPassword]]
           gate    == ValidateApiKey(request)
           authed  == AuthenticateResetToken(request)
           parsed  == ExpressJson(request)
       IN  IF ~parsed.next THEN Answer(r, request, NoFx, parsed.res)
           ELSE IF ~gate.next THEN Answer(r, request, NoFx, gate.res)
           ELSE IF ~authed.next THEN Answer(r, request, NoFx, authed.res)
           ELSE IF newPassword = "" THEN Answer(r, request, NoFx, Json(400, "error"))
           ELSE Await(r, request, NoFx, "reset:findById", [userId |-> authed.userId])
  /\ UNCHANGED <<users, nextId, now, held, pfVars>>

\* findById returns; the code must still be there; bcrypt.hash; save() is awaited
ResetFound(r) ==
  /\ At(r, "reset:findById")
  /\ LET id == FindById(loc[r].userId)
     IN  IF id = NoId THEN Answer(r, req[r], fx[r], Json(404, "error"))
         ELSE IF users[id].verificationToken = Null
         THEN Answer(r, req[r], fx[r], Json(400, "message"))
         ELSE Await(r, req[r], fx[r], "reset:save",
                    [userId |-> id, hashedPassword |-> Hash(req[r].body.newPassword)])
  /\ UNCHANGED <<users, nextId, now, held, served, pfVars>>

\* save() completes; sendEmail is awaited. Inside the bcrypt callback nothing
\* catches a rejection
ResetSaved(r) ==
  /\ At(r, "reset:save")
  /\ IF FindById(loc[r].userId) = NoId
     THEN Unhandled(r) /\ UNCHANGED users
     ELSE /\ users' = [users EXCEPT ![loc[r].userId] =
                         [@ EXCEPT !.password = loc[r].hashedPassword,
                                   !.verificationToken = Null,
                                   !.verificationExpires = NullDate]]
          /\ Await(r, req[r], Did(Did(fx[r], "writes"), "emails"), "reset:email",
                   [userId |-> loc[r].userId])
  /\ UNCHANGED <<nextId, now, held, served, pfVars>>

ResetEmailSent(r) ==
  /\ At(r, "reset:email")
  /\ \/ Answer(r, req[r], fx[r], Json(200, "message"))
     \/ Unhandled(r)
  /\ UNCHANGED <<users, nextId, now, held, served, pfVars>>

(***************************************************************************)
(* POST /recover-username                                                  *)
(***************************************************************************)
RecoverUsername(r) ==
  /\ Free(r)
  /\ Accept
  /\ \E wellFormed \in BOOLEAN, key \in ApiKeys, email \in EmailInputs :
       LET request == [at |-> now, wellFormed |-> wellFormed, endpoint |-> "/recover-username", apiKey |-> key, auth |-> NoAuth,
                       body |-> [email |-> email]]
           gate    == ValidateApiKey(request)
           parsed  == ExpressJson(request)
       IN  IF ~parsed.next THEN Answer(r, request, NoFx, parsed.res)
           ELSE IF ~gate.next THEN Answer(r, request, NoFx, gate.res)
           ELSE IF email = "" THEN Answer(r, request, NoFx, Json(400, "error"))
           ELSE Await(r, request, NoFx, "recover:findOne", NoLoc)
  /\ UNCHANGED <<users, nextId, now, held, pfVars>>

\* findOne({ email }) returns; sendEmail is awaited
RecoverFound(r) ==
  /\ At(r, "recover:findOne")
  /\ IF FindByEmail(req[r].body.email) = NoId
     THEN Answer(r, req[r], fx[r], Json(404, "error"))
     ELSE Await(r, req[r], Did(fx[r], "emails"), "recover:email", NoLoc)
  /\ UNCHANGED <<users, nextId, now, held, served, pfVars>>

RecoverEmailSent(r) ==
  /\ At(r, "recover:email")
  /\ \/ Answer(r, req[r], fx[r], Json(200, "message"))
     \/ Answer(r, req[r], fx[r], Json(500, "error"))
  /\ UNCHANGED <<users, nextId, now, held, served, pfVars>>

(***************************************************************************)
(* The profile and content endpoints: what clients send.                   *)
(***************************************************************************)
\* a plausible slip: the token is decoded, not verified
AuthenticateTokenUnverified(request) ==
  LET bearer == BearerOf(request.auth)
  IN  IF bearer.undefined
      THEN [next |-> FALSE, res |-> SendStatus(401), userId |-> NoId]
      ELSE [next |-> TRUE, res |-> NoRes, userId |-> bearer.token.userId]

\* authenticateToken: 401 without a second word, 403 when jwt.verify fails
AuthenticateToken(request) ==
  LET bearer == BearerOf(request.auth)
  IN  IF bearer.undefined
      THEN [next |-> FALSE, res |-> SendStatus(401), userId |-> NoId]
      ELSE IF ~JwtVerify(bearer.token)
      THEN [next |-> FALSE, res |-> SendStatus(403), userId |-> NoId]
      ELSE [next |-> TRUE, res |-> NoRes, userId |-> bearer.token.userId]

\* req.query.profile: not sent (or empty), a profile _id, or a string that is
\* no ObjectId
NoProfileParam == [given |-> FALSE, castable |-> FALSE, id |-> NoId]
GarbageProfileParam == [given |-> TRUE, castable |-> FALSE, id |-> NoId]
ProfileParam(id) == [given |-> TRUE, castable |-> TRUE, id |-> id]

\* requireProfile: next() or the response
RequireProfile(request) ==
  IF ~request.profile.given
  THEN [next |-> FALSE, res |-> Json(400, "error")]
  ELSE [next |-> TRUE, res |-> NoRes]

\* the users whose tokens clients present, and the profile ids they name
UserIds == 1..MaxUsers
ProfileIds == 1..MaxUsers
ProfileParams == {NoProfileParam, GarbageProfileParam} \cup {ProfileParam(id) : id \in ProfileIds}

\* a token /login issued that outlives the run, and one that expires at 1
LoginToken(userId) == Jwt(userId, MaxTime + LoginTtl, SECRET_KEY, "/login")
ExpiringToken == Jwt(1, 1, SECRET_KEY, "/login")

ContentAuth ==
  {NoAuth, OneWord}
  \cup {Bearer(t) : t \in {EmptyBearer, GarbageBearer, Forged, ExpiringToken}}
  \cup {Bearer(LoginToken(u)) : u \in UserIds}
  \cup {Bearer(t) : t \in held}

\* the upstream API's arrays: id, name and added (the number it parses to)
Catalogue(n) ==
  [i \in 1..n |-> [id |-> i, name |-> <<IF i % 2 = 0 THEN "a" ELSE "B">>, added |-> (i * 7) % 5]]
CatalogueSizes == {0, MaxItems}

\* --- the Profile collection ----------------------------------------------
\* a plausible slip: the owner is not part of the filter
FindAnyProfile(param, userId) ==
  IF param.id \in DOMAIN profiles THEN param.id ELSE NoId

\* Profile.findOne({ _id: profileId, userId }), for an _id that casts
FindProfile(param, userId) ==
  IF param.id \in DOMAIN profiles /\ profiles[param.id].userId = userId
  THEN param.id ELSE NoId

\* Profile.findOne({ userId, name })
FindProfileByName(userId, name) ==
  FirstOf({id \in DOMAIN profiles : profiles[id].userId = userId /\ profiles[id].name = name})

\* Profile.find({ userId }): the documents in _id order
RECURSIVE ProfilesOf(_, _)
ProfilesOf(userId, ids) ==
  IF ids = {} THEN <<>>
  ELSE LET id == MinOf(ids)
       IN  (IF profiles[id].userId = userId THEN <<profiles[id]>> ELSE <<>>)
           \o ProfilesOf(userId, ids \ {id})

(***************************************************************************)
(* POST /profiles, GET /profiles, GET /profiles/:profileId                 *)
(***************************************************************************)
ProfileBodies ==
  {[name |-> n, url |-> "http://tv", username |-> "u", password |-> "p"] : n \in {"home", "work"}}
  \cup {[name |-> "", url |-> "http://tv", username |-> "u", password |-> "p"],
        [name |-> "home", url |-> "", username |-> "u", password |-> "p"],
        [name |-> "home", url |-> "http://tv", username |-> "", password |-> "p"],
        [name |-> "home", url |-> "http://tv", username |-> "u", password |-> ""]}

\* the request arrives: the middlewares, validationResult, findOne is awaited
PostProfiles(r) ==
  /\ Free(r)
  /\ AcceptContent
  /\ \E wellFormed \in BOOLEAN, key \in ApiKeys, auth \in ContentAuth, body \in ProfileBodies :
       LET request == [at |-> now, wellFormed |-> wellFormed, endpoint |-> "POST /profiles", apiKey |-> key, auth |-> auth,
                       profile |-> NoProfileParam, body |-> body]
           gate    == ValidateApiKey(request)
           authed  == AuthenticateToken(request)
           parsed  == ExpressJson(request)
       IN  IF ~parsed.next THEN Answer(r, request, NoFx, parsed.res)
           ELSE IF ~gate.next THEN Answer(r, request, NoFx, gate.res)
           ELSE IF ~authed.next THEN Answer(r, request, NoFx, authed.res)
           ELSE IF "" \in {body.name, body.url, body.username, body.password}
           THEN Answer(r, request, NoFx, Json(400, "errors"))
           ELSE Await(r, request, Did(NoFx, "profileReads"), "profiles:findOne",
                      [userId |-> authed.userId])
  /\ UNCHANGED <<users, nextId, now, held, pfVars>>

\* findOne({ userId, name }) returns; new Profile(); save() is awaited
PostProfilesFound(r) ==
  /\ At(r, "profiles:findOne")
  /\ IF FindProfileByName(loc[r].userId, req[r].body.name) # NoId
     THEN Answer(r, req[r], fx[r], Json(400, "error")) /\ UNCHANGED nextProfileId
     ELSE /\ Await(r, req[r], fx[r], "profiles:save",
                   [userId |-> loc[r].userId,
                    doc |-> [id |-> nextProfileId,
                             userId |-> loc[r].userId,
                             url |-> req[r].body.url,
                             username |-> req[r].body.username,
                             password |-> req[r].body.password,
                             name |-> req[r].body.name]])
          /\ nextProfileId' = nextProfileId + 1
  /\ UNCHANGED <<users, nextId, now, held, served, profiles>>

\* save() completes: 201 with the profile
PostProfilesSaved(r) ==
  /\ At(r, "profiles:save")
  /\ profiles' = Insert(profiles, loc[r].doc.id, loc[r].doc)
  /\ Answer(r, req[r], Did(fx[r], "writes"), JsonData(201, "profile", loc[r].doc))
  /\ UNCHANGED <<users, nextId, now, held, served, nextProfileId>>

\* the request arrives: the middlewares, Profile.find is awaited
GetProfiles(r) ==
  /\ Free(r)
  /\ AcceptContent
  /\ \E wellFormed \in BOOLEAN, key \in ApiKeys, auth \in ContentAuth :
       LET request == [at |-> now, wellFormed |-> wellFormed, endpoint |-> "GET /profiles", apiKey |-> key, auth |-> auth,
                       profile |-> NoProfileParam]
           gate    == ValidateApiKey(request)
           authed  == AuthenticateToken(request)
           parsed  == ExpressJson(request)
       IN  IF ~parsed.next THEN Answer(r, request, NoFx, parsed.res)
           ELSE IF ~gate.next THEN Answer(r, request, NoFx, gate.res)
           ELSE IF ~authed.next THEN Answer(r, request, NoFx, authed.res)
           ELSE Await(r, request, Did(NoFx, "profileReads"), "profiles:find",
                      [userId |-> authed.userId])
  /\ UNCHANGED <<users, nextId, now, held, pfVars>>

\* find({ userId }) returns: res.json(profiles)
GetProfilesFound(r) ==
  /\ At(r, "profiles:find")
  /\ Answer(r, req[r], fx[r],
            JsonData(200, "profiles", ProfilesOf(loc[r].userId, DOMAIN profiles)))
  /\ UNCHANGED <<users, nextId, now, held, served, pfVars>>

\* the request arrives: the middlewares, Profile.findOne is awaited
\* (req.params.profileId is the profile named)
GetProfile(r) ==
  /\ Free(r)
  /\ AcceptContent
  /\ \E wellFormed \in BOOLEAN, key \in ApiKeys, auth \in ContentAuth, profile \in ProfileParams \ {NoProfileParam} :
       LET request == [at |-> now, wellFormed |-> wellFormed, endpoint |-> "GET /profiles/:profileId", apiKey |-> key, auth |-> auth,
                       profile |-> profile]
           gate    == ValidateApiKey(request)
           authed  == AuthenticateToken(request)
           parsed  == ExpressJson(request)
       IN  IF ~parsed.next THEN Answer(r, request, NoFx, parsed.res)
           ELSE IF ~gate.next THEN Answer(r, request, NoFx, gate.res)
           ELSE IF ~authed.next THEN Answer(r, request, NoFx, authed.res)
           ELSE Await(r, request, Did(NoFx, "profileReads"), "profile:findOne",
                      [userId |-> authed.userId])
  /\ UNCHANGED <<users, nextId, now, held, pfVars>>

\* findOne({ _id, userId }) returns: 404 or the profile. When the cast of _id
\* fails the handler's promise rejects, and the handler has no try: Express 4
\* never answers, Express 5 answers 500 with its error page
GetProfileFound(r) ==
  /\ At(r, "profile:findOne")
  /\ LET id == FindProfile(req[r].profile, loc[r].userId)
     IN  IF ~req[r].profile.castable
         THEN Unhandled(r) \/ Answer(r, req[r], fx[r], ErrorPage(500))
         ELSE IF id = NoId THEN Answer(r, req[r], fx[r], Json(404, "error"))
         ELSE Answer(r, req[r], fx[r], JsonData(200, "profile", profiles[id]))
  /\ UNCHANGED <<users, nextId, now, held, served, pfVars>>

(***************************************************************************)
(* The content endpoints. Each handler awaits getProfileParams, then       *)
(* getFromApi, then answers with what the upstream API returned.           *)
(***************************************************************************)
totalItems == 50

\* Array.prototype.sort((a, b) => b.added - a.added): stable, newest first.
\* The items of the most recent added come first, in the order the array has
\* them, then the items of the other values of added
RECURSIVE SortedByAdded(_, _)
SortedByAdded(list, values) ==
  IF values = {} THEN <<>>
  ELSE LET newest == CHOOSE v \in values : \A w \in values : w <= v
           IsNewest(item) == item.added = newest
       IN  SelectSeq(list, IsNewest) \o SortedByAdded(list, values \ {newest})

SortByAdded(list) == SortedByAdded(list, {list[i].added : i \in DOMAIN list})

\* a plausible slip: the first 50 as the upstream API lists them, then sort
RecentVodsOfFirst(vods) == SortByAdded(Slice(vods, 0, totalItems))

\* vods.sort(...).slice(0, totalItems)
RecentVods(vods) == Slice(SortByAdded(vods), 0, totalItems)
\* series.slice(0, 50).sort(...), liveStreams.slice(0, 50).sort(...)
SortedSeries(series) == SortByAdded(Slice(series, 0, totalItems))
SortedLiveStreams(liveStreams) == SortByAdded(Slice(liveStreams, 0, totalItems))

\* /vods/recent: sort, the first 50, then the page
GetVodsRecent(vods, pageParam) == Paginate(RecentVods(vods), pageParam)
\* /series/recent and /live/recent: the first 50, sort, then the page
GetSeriesRecent(series, pageParam) == Paginate(SortedSeries(series), pageParam)
GetLiveRecent(liveStreams, pageParam) == Paginate(SortedLiveStreams(liveStreams), pageParam)

RecentEndpoints == {"/vods/recent", "/series/recent", "/live/recent"}
\* res.json(data) with what the upstream API returned
PlainEndpoints ==
  {"/vods/categories", "/vods/:vodId", "/series/categories", "/series/:seriesId",
   "/live/categories", "/live/:liveId"}
ContentEndpoints == RecentEndpoints \cup PagedEndpoints \cup PlainEndpoints \cup {"/search"}

\* the body of the 200 response of a content endpoint with one upstream request
ContentResponse(endpoint, data, pageParam) ==
  CASE endpoint = "/vods/recent" -> GetVodsRecent(data, pageParam)
    [] endpoint = "/series/recent" -> GetSeriesRecent(data, pageParam)
    [] endpoint = "/live/recent" -> GetLiveRecent(data, pageParam)
    [] endpoint \in PagedEndpoints -> PagedResponse(endpoint, data, pageParam)
    [] endpoint \in PlainEndpoints -> data

\* req.query.page and req.query.q: not sent, or a value
PageInputs(endpoint) ==
  IF endpoint \in PagedEndpoints \cup RecentEndpoints THEN {Undefined, <<"2">>} ELSE {Undefined}
QueryInputs(endpoint) ==
  IF endpoint = "/search" THEN {Undefined, <<"a">>} ELSE {Undefined}

\* a request to one of the sixteen content routes arrives: validateApiKey,
\* authenticateToken, requireProfile; the handler awaits the Profile.findOne
\* of getProfileParams
ContentGet(r, endpoint) ==
  /\ Free(r)
  /\ AcceptContent
  /\ \E wellFormed \in BOOLEAN, key \in ApiKeys, auth \in ContentAuth, profile \in ProfileParams,
        page \in PageInputs(endpoint), q \in QueryInputs(endpoint) :
       LET request == [at |-> now, wellFormed |-> wellFormed, endpoint |-> endpoint, apiKey |-> key, auth |-> auth,
                       profile |-> profile, page |-> page, q |-> q]
           gate    == ValidateApiKey(request)
           authed  == AuthenticateToken(request)
           named   == RequireProfile(request)
           parsed  == ExpressJson(request)
       IN  IF ~parsed.next THEN Answer(r, request, NoFx, parsed.res)
           ELSE IF ~gate.next THEN Answer(r, request, NoFx, gate.res)
           ELSE IF ~authed.next THEN Answer(r, request, NoFx, authed.res)
           ELSE IF ~named.next THEN Answer(r, request, NoFx, named.res)
           ELSE Await(r, request, Did(NoFx, "profileReads"), "content:findOne",
                      [userId |-> authed.userId])
  /\ UNCHANGED <<users, nextId, now, held, pfVars>>

\* the three upstream requests of /search
SearchActions == {"get_live_streams", "get_vod_streams", "get_series"}

\* getProfileParams returns the profile or throws; with the profile the
\* handler calls getFromApi, /search three times at once after it has looked
\* at q
GetProfileParams(r) ==
  /\ At(r, "content:findOne")
  /\ LET id == FindProfile(req[r].profile, loc[r].userId)
     IN  IF ~req[r].profile.castable \/ id = NoId
         THEN Answer(r, req[r], fx[r], Json(500, "error"))
         ELSE IF req[r].endpoint = "/search"
         THEN IF req[r].q = Undefined \/ req[r].q = Empty
              THEN Answer(r, req[r], fx[r], Json(400, "error"))
              ELSE Await(r, req[r],
                         [fx[r] EXCEPT !.upstream = @ + 3, !.used = @ \cup {id}],
                         "search:getFromApi",
                         [userId |-> loc[r].userId, pending |-> SearchActions,
                          got |-> [a \in SearchActions |-> <<>>]])
         ELSE Await(r, req[r],
                    [fx[r] EXCEPT !.upstream = @ + 1, !.used = @ \cup {id}],
                    "content:getFromApi", [userId |-> loc[r].userId])
  /\ UNCHANGED <<users, nextId, now, held, served, pfVars>>

\* a plausible slip: the request is made once more
GetFromApiFailedRetry(r) ==
  Await(r, req[r], [fx[r] EXCEPT !.failed = @ + 1, !.upstream = @ + 1], pc[r], loc[r])

\* axios.get rejects: getFromApi throws and the handler's catch answers 500
GetFromApiFailed(r) ==
  Answer(r, req[r], Did(fx[r], "failed"), Json(500, "error"))

\* the upstream request of a content endpoint completes
GetFromApi(r) ==
  /\ At(r, "content:getFromApi")
  /\ \/ GetFromApiFailed(r)
     \/ \E n \in CatalogueSizes :
          Answer(r, req[r], Did(fx[r], "resolved"),
                 JsonData(200, "data", ContentResponse(req[r].endpoint, Catalogue(n), req[r].page)))
  /\ UNCHANGED <<users, nextId, now, held, served, pfVars>>

\* one of the upstream requests of /search completes: Promise.all rejects
\* with the first failure, and resolves when all three have resolved
SearchGetFromApi(r) ==
  /\ At(r, "search:getFromApi")
  /\ \E action \in loc[r].pending :
       \/ GetFromApiFailed(r)
       \/ \E n \in CatalogueSizes :
            LET got == [loc[r].got EXCEPT ![action] = Catalogue(n)]
            IN  IF loc[r].pending = {action}
                THEN Answer(r, req[r], Did(fx[r], "resolved"),
                            JsonData(200, "search",
                                     SearchResults(got["get_live_streams"], got["get_vod_streams"],
                                                   got["get_series"], req[r].q)))
                ELSE Await(r, req[r], Did(fx[r], "resolved"), pc[r],
                           [loc[r] EXCEPT !.pending = @ \ {action}, !.got = got])
  /\ UNCHANGED <<users, nextId, now, held, served, pfVars>>

(***************************************************************************)
(* The client and the clock.                                               *)
(***************************************************************************)
\* the client gives up waiting for a response that never comes
Abandon(r) ==
  /\ At(r, "unanswered")
  /\ pc' = [pc EXCEPT ![r] = "idle"]
  /\ req' = [req EXCEPT ![r] = NoReq]
  /\ fx' = [fx EXCEPT ![r] = NoFx]
  /\ sent' = NoSent
  /\ UNCHANGED <<dbVars, now, held, served, loc, pgVars, srVars>>

Tick ==
  /\ sent = NoSent
  /\ now < MaxTime
  /\ now' = now + 1
  /\ sent' = NoSent
  /\ UNCHANGED <<dbVars, held, served, pc, req, loc, fx, pgVars, srVars>>

SvIdle ==
  /\ users = <<>>
  /\ nextId = 1
  /\ profiles = <<>>
  /\ nextProfileId = 1
  /\ now = 0
  /\ held = {}
  /\ served = 0
  /\ pc = [r \in Slots |-> "idle"]
  /\ req = [r \in Slots |-> NoReq]
  /\ loc = [r \in Slots |-> NoLoc]
  /\ fx = [r \in Slots |-> NoFx]
  /\ sent = NoSent

\* the document POST /register has saved for ann, at time 0
Registered ==
  [username |-> "ann", password |-> Hash("pw1"), email |-> "ann@x",
   firstName |-> "Ann", lastName |-> "Lee",
   verificationToken |-> RandomCode(0),
   verificationExpires |-> <<CodeTtl>>,
   isVerified |-> FALSE]

\* the server after one POST /register has been answered 201
SvRegistered ==
  /\ users = Insert(<<>>, 1, Registered)
  /\ nextId = 2
  /\ profiles = <<>>
  /\ nextProfileId = 1
  /\ now = 0
  /\ held = {}
  /\ served = 0
  /\ pc = [r \in Slots |-> "idle"]
  /\ req = [r \in Slots |-> NoReq]
  /\ loc = [r \in Slots |-> NoLoc]
  /\ fx = [r \in Slots |-> NoFx]
  /\ sent = NoSent

\* the server after two concurrent POST /register, for ann and for bob, have
\* drawn the same code and have both been answered 201
SvRegisteredTwice ==
  /\ users = Insert(Insert(<<>>, 1, Registered), 2,
                     [Registered EXCEPT !.username = "bob", !.email = "bob@x"])
  /\ nextId = 3
  /\ profiles = <<>>
  /\ nextProfileId = 1
  /\ now = 0
  /\ held = {}
  /\ served = 0
  /\ pc = [r \in Slots |-> "idle"]
  /\ req = [r \in Slots |-> NoReq]
  /\ loc = [r \in Slots |-> NoLoc]
  /\ fx = [r \in Slots |-> NoFx]
  /\ sent = NoSent

AccountsStep(r) ==
  \/ Register(r) \/ RegisterFound(r) \/ RegisterCode(r) \/ RegisterSaved(r)
  \/ RegisterEmailSent(r) \/ RegisterDeleted(r)
  \/ Verify(r) \/ VerifyFound(r) \/ VerifySaved(r) \/ VerifyEmailSent(r)
  \/ ResendVerification(r) \/ ResendFound(r) \/ ResendCode(r) \/ ResendSaved(r)
  \/ ResendEmailSent(r)
  \/ Login(r) \/ LoginFound(r)
  \/ ForgotPassword(r) \/ ForgotFound(r) \/ ForgotCode(r) \/ ForgotSaved(r)
  \/ ForgotEmailSent(r)
  \/ VerifyResetCode(r) \/ VerifyResetFound(r)
  \/ ResetPassword(r) \/ ResetFound(r) \/ ResetSaved(r) \/ ResetEmailSent(r)
  \/ RecoverUsername(r) \/ RecoverFound(r) \/ RecoverEmailSent(r)
  \/ Abandon(r)

ContentStep(r) ==
  \/ PostProfiles(r) \/ PostProfilesFound(r) \/ PostProfilesSaved(r)
  \/ GetProfiles(r) \/ GetProfilesFound(r)
  \/ GetProfile(r) \/ GetProfileFound(r)
  \/ \E endpoint \in ContentEndpoints : ContentGet(r, endpoint)
  \/ GetProfileParams(r) \/ GetFromApi(r) \/ SearchGetFromApi(r)

\* the account endpoints, requests running concurrently
Next == (\E r \in Slots : AccountsStep(r)) \/ Deliver

\* the profile and content endpoints, one request at a time, the clock running
ContentNext == ContentStep(1) \/ Abandon(1) \/ Deliver \/ Tick

\* every endpoint, one request at a time
SequentialNext == AccountsStep(1) \/ ContentStep(1) \/ Deliver

\* /verify-reset-code and /reset-password
ResetStep(r) ==
  \/ VerifyResetCode(r) \/ VerifyResetFound(r)
  \/ ResetPassword(r) \/ ResetFound(r) \/ ResetSaved(r) \/ ResetEmailSent(r)
  \/ Abandon(r)

\* the password is reset for a registered account, requests running
\* concurrently
ResetNext == (\E r \in Slots : ResetStep(r)) \/ Deliver

\* the endpoints that issue a verification code and those that take one
CodeStep(r) ==
  \/ Register(r) \/ RegisterFound(r) \/ RegisterCode(r) \/ RegisterSaved(r)
  \/ RegisterEmailSent(r) \/ RegisterDeleted(r)
  \/ Verify(r) \/ VerifyFound(r) \/ VerifySaved(r) \/ VerifyEmailSent(r)
  \/ ResendVerification(r) \/ ResendFound(r) \/ ResendCode(r) \/ ResendSaved(r)
  \/ ResendEmailSent(r)
  \/ ForgotPassword(r) \/ ForgotFound(r) \/ ForgotCode(r) \/ ForgotSaved(r)
  \/ ForgotEmailSent(r)
  \/ VerifyResetCode(r) \/ VerifyResetFound(r)

\* those endpoints, one request at a time, the clock running
CodeNext == CodeStep(1) \/ Abandon(1) \/ Deliver \/ Tick

\* /verify, one request at a time, the clock running
VerifyNext ==
  Verify(1) \/ VerifyFound(1) \/ VerifySaved(1) \/ VerifyEmailSent(1) \/ Deliver \/ Tick

\* /verify-reset-code and the profile and content endpoints, one request at a
\* time
TokenNext ==
  VerifyResetCode(1) \/ VerifyResetFound(1) \/ ContentStep(1) \/ Abandon(1) \/ Deliver

(***************************************************************************)
(* SpecSearch: one search over three upstream arrays.                      *)
(***************************************************************************)
NameChars == {"a", "B"}
QueryChars == {"a", "A", "b"}

Names == SeqsUpTo(NameChars, MaxNameLen) \ {<<>>}
Queries == SeqsUpTo(QueryChars, MaxNameLen) \ {<<>>}

\* the arrays of at most n items
ItemLists(n) ==
  {[i \in 1..Len(ns) |-> [id |-> i, name |-> ns[i]]] : ns \in SeqsUpTo(Names, n)}

SrIdle ==
  /\ srLive = <<>>
  /\ srMovies = <<>>
  /\ srSeries = <<>>
  /\ srQuery = <<>>
  /\ srRes = <<>>

SrInit ==
  /\ srLive \in ItemLists(MaxSearchItems)
  /\ srMovies \in ItemLists(MaxSearchItems - Len(srLive))
  /\ srSeries \in ItemLists(MaxSearchItems - Len(srLive) - Len(srMovies))
  /\ srQuery \in Queries
  /\ srRes = <<>>

\* GET /search?q=<srQuery>, the three upstream requests having succeeded
SearchGet ==
  /\ srRes = <<>>
  /\ srRes' = <<SearchResults(srLive, srMovies, srSeries, srQuery)>>
  /\ UNCHANGED <<srLive, srMovies, srSeries, srQuery>>

SrNext == SearchGet /\ UNCHANGED <<pgVars, svVars>>

(***************************************************************************)
(* SpecPaging: one upstream list, requested page after page.               *)
(***************************************************************************)
PageChars == {"-", "0", "1", "2"}

PageParams == {Undefined} \cup SeqsUpTo(PageChars, MaxPageLen)

\* an upstream array of n items; an item is known by its position upstream
UpstreamList(n) == [i \in 1..n |-> [id |-> i]]

\* the integer values of page whose responses are kept for comparison
TrackedPages == (0 - 1)..CeilDiv(MaxItems, limit)

PgIdle ==
  /\ pgEndpoint = "/vods"
  /\ pgList = <<>>
  /\ pgRes = <<>>
  /\ pgServed = <<>>

PgInit ==
  /\ pgEndpoint \in PagedEndpoints
  /\ pgList \in {UpstreamList(n) : n \in 0..MaxItems}
  /\ pgRes = <<>>
  /\ pgServed = <<>>

\* GET <endpoint>?page=<pageParam>, the upstream request having succeeded
PagedGet(pageParam) ==
  LET response == PagedResponse(pgEndpoint, pgList, pageParam)
      asked    == ParseInt(pageParam)
  IN  /\ pgRes' = <<response>>
      /\ pgServed' =
           IF ~asked.isNaN /\ asked.value \in TrackedPages
           THEN [v \in DOMAIN pgServed \cup {asked.value} |->
                   IF v = asked.value THEN response ELSE pgServed[v]]
           ELSE pgServed
      /\ UNCHANGED <<pgEndpoint, pgList>>

PgNext ==
  /\ \E pageParam \in PageParams : PagedGet(pageParam)
  /\ UNCHANGED <<srVars, svVars>>

(***************************************************************************)
(* SpecRecent: one upstream list, its most recent items requested.         *)
(***************************************************************************)
\* an upstream array of n items whose added cycles through 0, 1, 2, but for
\* the item at position hot (if any), which is the most recent of all
RecentList(n, hot) ==
  [i \in 1..n |-> [id |-> i, added |-> IF i = hot THEN 3 ELSE i % 3]]

\* arrays of a few items and arrays of about totalItems items, the most
\* recent item among the first or among the last
RecentSizes == 0..2 \cup (MaxRecent - 3)..MaxRecent
RecentLists == {RecentList(n, hot) : n \in RecentSizes, hot \in RecentSizes}

RecentPages == {Undefined} \cup {<<DigitChar(p)>> : p \in 0..6}

RecentInit ==
  /\ pgEndpoint \in RecentEndpoints
  /\ pgList \in RecentLists
  /\ pgRes = <<>>
  /\ pgServed = <<>>
  /\ SrIdle
  /\ SvIdle

\* GET <endpoint>?page=<pageParam>, the upstream request having succeeded
RecentGet(pageParam) ==
  /\ pgRes' = <<ContentResponse(pgEndpoint, pgList, pageParam)>>
  /\ UNCHANGED <<pgEndpoint, pgList, pgServed>>

RecentNext ==
  /\ \E pageParam \in RecentPages : RecentGet(pageParam)
  /\ UNCHANGED <<srVars, svVars>>

SpecRecent == RecentInit /\ [][RecentNext]_vars

PagingInit == PgInit /\ SrIdle /\ SvIdle

SpecPaging == PagingInit /\ [][PgNext]_vars

SearchInit == SrInit /\ PgIdle /\ SvIdle

SpecSearch == SearchInit /\ [][SrNext]_vars

Init == SvIdle /\ PgIdle /\ SrIdle

Spec == Init /\ [][Next]_vars
SpecContent == Init /\ [][ContentNext]_vars
SpecSequential == Init /\ [][SequentialNext]_vars

RegisteredInit == SvRegistered /\ PgIdle /\ SrIdle

SpecReset == RegisteredInit /\ [][ResetNext]_vars

SpecCodes == Init /\ [][CodeNext]_vars

VerifyInit == SvRegisteredTwice /\ PgIdle /\ SrIdle

SpecVerify == VerifyInit /\ [][VerifyNext]_vars

SpecTokens == RegisteredInit /\ [][TokenNext]_vars

(***************************************************************************)
(* Properties of pagination.                                               *)
(***************************************************************************)
Positions(data) == {data[i].id : i \in 1..Len(data)}

RECURSIVE ConcatPages(_, _)
ConcatPages(responses, upTo) ==
  IF upTo = 0 THEN <<>> ELSE ConcatPages(responses, upTo - 1) \o responses[upTo].data

\* C1: for any two different integer values of the page query parameter, the
\* slices returned for the same upstream list share no position of the list.
C1_SlicesDisjoint ==
  \A v1 \in DOMAIN pgServed : \A v2 \in DOMAIN pgServed :
    v1 # v2 => Positions(pgServed[v1].data) \cap Positions(pgServed[v2].data) = {}

\* C2: pages 1..ceil(n/10), concatenated in page order, are the upstream list;
\* every page holds at most 10 items; total = n and totalPages = ceil(n/10);
\* a page above totalPages is empty.
C2_PagesCoverList ==
  LET n  == Len(pgList)
      tp == CeilDiv(n, 10)
  IN  /\ \A i \in 1..Len(pgRes) :
           /\ Len(pgRes[i].data) <= 10
           /\ pgRes[i].total = n
           /\ pgRes[i].totalPages = tp
           /\ pgRes[i].page > tp => pgRes[i].data = <<>>
      /\ \A v \in DOMAIN pgServed :
           /\ Len(pgServed[v].data) <= 10
           /\ pgServed[v].total = n
           /\ pgServed[v].totalPages = tp
           /\ v > tp => pgServed[v].data = <<>>
      /\ (1..tp \subseteq DOMAIN pgServed) => ConcatPages(pgServed, tp) = pgList

\* all pages of a list whose last page is incomplete have been served, and a
\* page past the last one as well
C2_Witness ==
  LET tp == CeilDiv(Len(pgList), 10)
  IN  /\ tp >= 2
      /\ Len(pgList) % 10 # 0
      /\ 1..tp \subseteq DOMAIN pgServed
      /\ pgRes # <<>> /\ pgRes[1].page > tp

(***************************************************************************)
(* Properties of the search.                                               *)
(***************************************************************************)
\* two characters are the same letter, whatever their case
SameLetter(c, d) ==
  \/ c = d
  \/ {c, d} = {"a", "A"}
  \/ {c, d} = {"b", "B"}

\* term occurs in name at some offset, letter by letter, ignoring case
ContainsIgnoringCase(name, term) ==
  \E off \in 0..(Len(name) - Len(term)) :
    \A j \in 1..Len(term) : SameLetter(name[off + j], term[j])

\* found is upstream with exactly the matching items kept, in upstream order:
\* an order-preserving one-to-one map from found onto the matching positions
ExactlyTheMatches(found, upstream, term) ==
  LET matching == {i \in 1..Len(upstream) : ContainsIgnoringCase(upstream[i].name, term)}
  IN  /\ Len(found) = Cardinality(matching)
      /\ \A k \in 1..Len(found) :
           /\ found[k].id \in matching
           /\ found[k] = upstream[found[k].id]
           /\ k > 1 => found[k - 1].id < found[k].id

\* C9: for each of the three upstream collections, /search returns exactly the
\* items whose name contains q as a substring ignoring letter case, in upstream
\* order.
C9_SearchExact ==
  \A i \in 1..Len(srRes) :
    /\ ExactlyTheMatches(srRes[i].liveStreams, srLive, srQuery)
    /\ ExactlyTheMatches(srRes[i].movies, srMovies, srQuery)
    /\ ExactlyTheMatches(srRes[i].series, srSeries, srQuery)

\* a search answered where a collection of two items has one matching item, a
\* match that depends on ignoring case, found at an offset inside the name
C9_Witness ==
  /\ srRes # <<>>
  /\ \E coll \in {srLive, srMovies, srSeries} :
       /\ Len(coll) = 2
       /\ ContainsIgnoringCase(coll[2].name, srQuery)
       /\ ~ContainsIgnoringCase(coll[1].name, srQuery)
       /\ ~Includes(coll[2].name, srQuery)
       /\ Len(coll[2].name) > Len(srQuery)
       /\ srRes[1].liveStreams \o srRes[1].movies \o srRes[1].series = <<coll[2]>>

(***************************************************************************)
(* Properties of the server.                                               *)
(***************************************************************************)
Stored(id) == users[id].verificationToken

\* C3: no two user accounts hold the same non-null verificationToken, also
\* when /register, /resend-verification and /forgot-password run concurrently.
C3_CodesUnique ==
  \A a \in DOMAIN users : \A b \in DOMAIN users :
    a # b /\ Stored(a) # Null => Stored(a) # Stored(b)

Digits == {"0", "1", "2", "3", "4", "5", "6", "7", "8", "9"}

\* a decimal string of exactly six digits with no leading zero
SixDigits(code) ==
  /\ Len(code) = 6
  /\ \A i \in 1..6 : code[i] \in Digits
  /\ code[1] # "0"

\* C10: every code generateUniqueVerificationCode draws, and every non-null
\* verificationToken stored, is a decimal string of exactly six digits, an
\* integer in 100000..999999 with no leading zero.
C10_SixDigitCodes ==
  /\ \A id \in DOMAIN users : Stored(id) # Null => SixDigits(Stored(id))
  /\ \A r \in Slots : "code" \in DOMAIN loc[r] => SixDigits(loc[r].code)

\* /register has stored a code and /resend-verification or /forgot-password
\* has replaced it; the largest code there is is stored
C10_Witness ==
  /\ \E id \in DOMAIN users : Stored(id) = RandomCode(999999)
  /\ sent.slot # 0
  /\ sent.req.endpoint \in {"/resend-verification", "/forgot-password"}
  /\ sent.fx.writes = 1
  /\ sent.res.status = 200

RefusedWith(request, status) == IF request.wellFormed THEN status ELSE 400

ProfileAndContentEndpoints ==
  {"POST /profiles", "GET /profiles", "GET /profiles/:profileId"} \cup ContentEndpoints

\* the request carries no bearer token; the token it carries has a wrong
\* signature or had expired when the request arrived
NoBearerToken(request) == request.auth.words < 2
FailsVerification(request) ==
  /\ request.auth.words >= 2
  /\ (request.auth.second.sig # SECRET_KEY \/ request.auth.second.exp <= request.at)

TokenUser(request) == request.auth.second.userId

\* the request names a profile of another user
NamesAnothers(request) ==
  /\ request.profile.id \in DOMAIN profiles
  /\ profiles[request.profile.id].userId # TokenUser(request)

\* C6: a profile is returned, or its url, username and password used for an
\* upstream request, only when the userId in the bearer token is the
\* profile's userId; a request that names another user's profile obtains
\* neither the profile nor upstream data.
C6_ProfileOwnership ==
  /\ sent.slot # 0 /\ sent.res.status = 200 /\ sent.req.endpoint = "GET /profiles"
     => \A i \in 1..Len(sent.res.data[1]) : sent.res.data[1][i].userId = TokenUser(sent.req)
  /\ sent.slot # 0 /\ sent.res.status = 200 /\ sent.req.endpoint = "GET /profiles/:profileId"
     => sent.res.data[1].userId = TokenUser(sent.req)
  /\ sent.slot # 0
     => \A id \in sent.fx.used : profiles[id].userId = TokenUser(sent.req)
  /\ \A r \in Slots : \A id \in fx[r].used : profiles[id].userId = TokenUser(req[r])
  /\ sent.slot # 0 /\ sent.req.endpoint \in ProfileAndContentEndpoints /\ NamesAnothers(sent.req)
     => sent.res.status # 200 /\ sent.fx.upstream = 0 /\ Len(sent.res.data) = 0

\* a user asks for the VODs of another user's profile
C6_Witness ==
  /\ sent.slot # 0
  /\ sent.req.endpoint = "/vods"
  /\ sent.req.apiKey = API_KEY
  /\ sent.req.auth = Bearer(LoginToken(2))
  /\ NamesAnothers(sent.req)
  /\ sent.fx.profileReads = 1
  /\ sent.res.status = 500

\* the upstream requests a content endpoint makes
UpstreamRequests(endpoint) == IF endpoint = "/search" THEN 3 ELSE 1

\* C7: when an upstream request of a content endpoint fails the request is
\* answered 500 and no further upstream request is made for it; for /search
\* one failure among its three yields 500 and no partial result.
C7_UpstreamFailure ==
  /\ sent.slot # 0 /\ sent.fx.failed > 0
     => /\ sent.res.status = 500
        /\ Len(sent.res.data) = 0
        /\ sent.fx.upstream = UpstreamRequests(sent.req.endpoint)
  /\ \A r \in Slots :
       /\ fx[r].failed = 0
       /\ fx[r].upstream > 0 => fx[r].upstream = UpstreamRequests(req[r].endpoint)

\* two of the upstream requests of /search resolved and the third failed
C7_Witness ==
  /\ sent.slot # 0
  /\ sent.req.endpoint = "/search"
  /\ sent.fx.resolved = 2
  /\ sent.fx.failed = 1
  /\ sent.res.status = 500

\* C8: every response with a 4xx or 5xx status carries a JSON error body.
C8_ErrorsAreJson ==
  sent.slot # 0 /\ sent.res.status >= 400 => sent.res.json

\* an account is marked verified in this step
BecomesVerified(id) ==
  /\ users'[id].isVerified
  /\ id \in DOMAIN users => ~users[id].isVerified

\* C11: /login issues a token only when an account with the given username
\* exists, the given password matches its stored password and the account is
\* verified, and no other endpoint issues such a token; an account is created
\* unverified and becomes verified only when the save() of a /verify that
\* found it completes, so an account that was registered but has
\* not gone through /verify never obtains a token from /login.
C11_LoginVerifiedOnly ==
  /\ [](sent.slot # 0 /\ sent.req.endpoint = "/login" /\ sent.res.status = 200
        => \E id \in DOMAIN users :
             /\ users[id].username = sent.req.body.username
             /\ Compare(sent.req.body.password, users[id].password)
             /\ users[id].isVerified
             /\ sent.res.data[1].userId = id
             /\ sent.res.data[1].by = "/login")
  /\ [](sent.res.key = "token" => sent.req.endpoint = "/login")
  /\ [][\A id \in DOMAIN users' :
          BecomesVerified(id)
          => \E r \in Slots :
               /\ pc[r] = "verify:save"
               /\ req[r].endpoint = "/verify"
               /\ loc[r].userId = id]_vars

\* an account was registered and verified, and /login has issued its token
C11_Witness ==
  /\ sent.slot # 0
  /\ sent.req.endpoint = "/login"
  /\ sent.res.status = 200
  /\ sent.res.key = "token"
  /\ sent.res.data[1].userId \in DOMAIN users

\* a /reset-password request whose save() has assigned the password
ChangedPassword(request, effects) ==
  request.endpoint = "/reset-password" /\ effects.writes > 0

\* C12: a reset token changes the password at most once: of the
\* /reset-password requests that present the same token, in flight or just
\* answered, no two have changed the password, and once one has been answered
\* 200 every other is answered 400, also when they run concurrently.
C12_ResetTokenOnce ==
  /\ \A r \in Slots : \A q \in Slots :
       /\ r # q
       /\ req[r].endpoint = "/reset-password"
       /\ req[q].endpoint = "/reset-password"
       /\ req[r].auth = req[q].auth
       => ~(ChangedPassword(req[r], fx[r]) /\ ChangedPassword(req[q], fx[q]))
  /\ \A r \in Slots :
       /\ sent.slot # 0
       /\ sent.res.status = 200
       /\ ChangedPassword(sent.req, sent.fx)
       /\ req[r].endpoint = "/reset-password"
       /\ req[r].auth = sent.req.auth
       => ~ChangedPassword(req[r], fx[r])

\* the endpoint that issued the request's bearer token
IssuedBy(request) == request.auth.second.by

\* C13: a bearer token accepted by the profile and content endpoints is only
\* ever one issued by /login; a token issued by /verify-reset-code is not
\* accepted by those endpoints.
C13_OnlyLoginTokens ==
  /\ /\ sent.slot # 0
     /\ sent.req.endpoint \in ProfileAndContentEndpoints
     /\ sent.req.wellFormed
     /\ sent.req.apiKey = API_KEY
     /\ sent.res.status \notin {401, 403}
     => IssuedBy(sent.req) = "/login"
  /\ \A r \in Slots :
       req[r].endpoint \in ProfileAndContentEndpoints => IssuedBy(req[r]) = "/login"

\* the code is stored for an account and its ten minutes are over
Late(code) ==
  LET id == FindByToken(code)
  IN  /\ id # NoId
      /\ users[id].verificationExpires # NullDate
      /\ now > users[id].verificationExpires[1]

\* a code is stored for the account in this step
CodeIssued(id) ==
  /\ users'[id].verificationToken # Null
  /\ id \in DOMAIN users
     => \/ users'[id].verificationToken # users[id].verificationToken
        \/ users'[id].verificationExpires # users[id].verificationExpires

\* C14: a code is stored by /register, /resend-verification or
\* /forgot-password with an expiry ten minutes after a moment of that request;
\* /verify and /verify-reset-code, finding the account of a code whose expiry
\* has passed, answer 400 and change no account: the account is not marked
\* verified, the code is not cleared and no reset token is issued.
C14_CodesExpire ==
  /\ [](\A id \in DOMAIN users :
          Stored(id) # Null => users[id].verificationExpires # NullDate)
  /\ [][\A id \in DOMAIN users' :
          CodeIssued(id)
          => \E r \in Slots :
               /\ req[r].endpoint \in {"/register", "/resend-verification", "/forgot-password"}
               /\ users'[id].verificationExpires[1] \in (req[r].at + CodeTtl)..(now + CodeTtl)]_vars
  /\ [][\A r \in Slots :
          /\ pc[r] = "verify:findOne" /\ pc'[r] # pc[r] /\ Late(req[r].body.code)
             => sent'.slot = r /\ sent'.res.status = 400 /\ users' = users
          /\ pc[r] = "verifyReset:findOne" /\ pc'[r] # pc[r] /\ Late(req[r].body.verificationCode)
             => /\ sent'.slot = r /\ sent'.res.status = 400 /\ users' = users
                /\ sent'.res.key # "resetToken"]_vars

\* a code is submitted to /verify after its ten minutes and refused; the
\* account is still unverified and holds the code
C14_Witness ==
  /\ sent.slot # 0
  /\ sent.req.endpoint = "/verify"
  /\ sent.res.status = 400
  /\ Late(sent.req.body.code)
  /\ ~users[FindByToken(sent.req.body.code)].isVerified

\* C15: a verification code is single-use for account verification: once
\* /verify has succeeded with a code no account holds that code, so that a
\* later /verify with it finds none, is answered 400 and changes no account
\* (no code is issued again where only /verify is requested).
C15_CodeSingleUse ==
  sent.slot # 0 /\ sent.req.endpoint = "/verify" /\ sent.res.status = 200
  => FindByToken(sent.req.body.code) = NoId

\* every account but this one is there, unchanged, after the step
OthersUntouched(id) ==
  \A other \in DOMAIN users \ {id} :
    other \in DOMAIN users' /\ users'[other] = users[other]

\* C16: when sendEmail fails during /register the request is answered 500,
\* and at that answer no account with the submitted username or email exists;
\* from the failure to the answer no other account is removed or changed.
C16_RegisterEmailFailure ==
  /\ [](sent.slot # 0 /\ sent.req.endpoint = "/register" /\ sent.fx.emails > 0
        /\ sent.res.status # 201
        => /\ sent.res.status = 500
           /\ FindByUsername(sent.req.body.username) = NoId
           /\ FindByEmail(sent.req.body.email) = NoId)
  /\ [][\A r \in Slots :
          /\ pc[r] = "register:email" /\ pc'[r] # pc[r]
             => users' = users /\ (sent'.slot = r => sent'.res.status = 201)
          /\ pc[r] = "register:deleteOne" /\ pc'[r] # pc[r]
             => /\ sent'.slot = r
                /\ OthersUntouched(FindByEmail(req[r].body.email))]_vars

\* sendEmail failed for a second /register: it is answered 500, its account
\* was saved and deleted, and the account of the first is there
C16_Witness ==
  /\ sent.slot # 0
  /\ sent.req.endpoint = "/register"
  /\ sent.res.status = 500
  /\ sent.fx.emails = 1
  /\ sent.fx.writes = 2
  /\ DOMAIN users # {}

\* C17: no two user accounts have the same username and no two the same
\* email, also when /register requests with the same username or email run
\* concurrently; a /register that finds its username taken is answered 400
\* and creates nothing, and a 400 of /register has written nothing.
C17_UniqueAccounts ==
  /\ [](\A a \in DOMAIN users : \A b \in DOMAIN users :
          a # b => /\ users[a].username # users[b].username
                   /\ users[a].email # users[b].email)
  /\ [](sent.slot # 0 /\ sent.req.endpoint = "/register" /\ sent.res.status = 400
        => sent.fx.writes = 0)
  /\ [][\A r \in Slots :
          /\ pc[r] = "register:findOne" /\ pc'[r] # pc[r]
          /\ FindByUsername(req[r].body.username) # NoId
          => sent'.slot = r /\ sent'.res.status = 400 /\ users' = users]_vars

\* two /register requests for the same username ran concurrently: one has
\* created the account, the save() of the other was rejected
C17_Witness ==
  \E r \in Slots :
    /\ pc[r] = "unanswered"
    /\ req[r].endpoint = "/register"
    /\ FindByUsername(req[r].body.username) # NoId
    /\ Cardinality(DOMAIN users) = 1

(***************************************************************************)
(* Properties of the recent endpoints.                                     *)
(***************************************************************************)
\* most recent first
NewestFirst(window) ==
  \A i \in 1..(Len(window) - 1) : window[i].added >= window[i + 1].added

\* the window holds distinct items of the upstream list
TakenFrom(window, upstream) ==
  /\ \A i \in DOMAIN window : \E j \in DOMAIN upstream : window[i] = upstream[j]
  /\ \A i \in DOMAIN window : \A k \in DOMAIN window : i # k => window[i].id # window[k].id

\* no upstream item outside the window is more recent than one inside it
NoneMoreRecentOutside(window, upstream) ==
  \A j \in DOMAIN upstream :
    (\A i \in DOMAIN window : window[i].id # upstream[j].id)
    => \A i \in DOMAIN window : window[i].added >= upstream[j].added

\* the response shows a page of the window, and counts the window
PageOf(response, window) ==
  /\ response.total = Len(window)
  /\ response.totalPages = CeilDiv(Len(window), limit)
  /\ response.data = Slice(window, (response.page - 1) * limit, response.page * limit)

\* C18: /vods/recent paginates the min(50, n) upstream VODs with the greatest
\* added: the window is in non-increasing order of added, no upstream VOD
\* outside it has a greater added than one inside it, the reported total is
\* the window size, at most 50, and totalPages is at most 5.
C18_VodsRecentWindow ==
  pgEndpoint = "/vods/recent" /\ Len(pgRes) = 1
  => LET window == RecentVods(pgList)
     IN  /\ Len(window) = Min(50, Len(pgList))
         /\ TakenFrom(window, pgList)
         /\ NewestFirst(window)
         /\ NoneMoreRecentOutside(window, pgList)
         /\ PageOf(pgRes[1], window)
         /\ NewestFirst(pgRes[1].data)
         /\ pgRes[1].total <= 50
         /\ pgRes[1].totalPages <= 5

\* the most recent of more than 50 VODs is the last the upstream API lists,
\* and the first of page 1
C18_Witness ==
  /\ pgEndpoint = "/vods/recent"
  /\ Len(pgList) > totalItems
  /\ pgList[Len(pgList)].added = 3
  /\ Len(pgRes) = 1
  /\ pgRes[1].page = 1
  /\ pgRes[1].total = 50
  /\ pgRes[1].data[1] = pgList[Len(pgList)]

\* the window of /series/recent and of /live/recent
RecentWindow(endpoint, upstream) ==
  IF endpoint = "/series/recent" THEN SortedSeries(upstream) ELSE SortedLiveStreams(upstream)

\* C19: /series/recent and /live/recent return the most recently added items:
\* their window of at most 50 items is in non-increasing order of added and
\* no upstream item outside the window was added later than one inside it.
C19_RecentIsMostRecent ==
  pgEndpoint \in {"/series/recent", "/live/recent"} /\ Len(pgRes) = 1
  => LET window == RecentWindow(pgEndpoint, pgList)
     IN  /\ Len(window) <= 50
         /\ PageOf(pgRes[1], window)
         /\ NewestFirst(window)
         /\ NoneMoreRecentOutside(window, pgList)

\* C20: state is unchanged on error: a /verify or /reset-password that is
\* answered with another status than 200, or is never answered, has written
\* nothing to the account record.
C20_UnchangedOnError ==
  /\ /\ sent.slot # 0
     /\ sent.req.endpoint \in {"/verify", "/reset-password"}
     /\ sent.res.status # 200
     => sent.fx.writes = 0
  /\ \A r \in Slots :
       pc[r] = "unanswered" /\ req[r].endpoint \in {"/verify", "/reset-password"}
       => fx[r].writes = 0

====
